---- MODULE Spec2Model ----
(***************************************************************************)
(* Model of download_music.py: a CSV of tracks is read with                *)
(* csv.DictReader and, row by row, a progress line is printed and          *)
(* yt_dlp.YoutubeDL.download is called with a "ytsearch:" query.           *)
(*                                                                         *)
(* A file is the sequence of rows that csv.reader yields for it: each row  *)
(* is a sequence of strings, a blank line is the empty sequence.  Row 1,   *)
(* when present, is what DictReader takes as its fieldnames.               *)
(***************************************************************************)
EXTENDS Integers, Sequences, FiniteSets, TLC

\* ---------------------------------------------------------------- bounds
MaxRows == 2      \* rows after the header row
MaxCols == 2      \* columns in the header row
MaxFields == 2    \* fields in a data row

\* ------------------------------------------------------------- constants
TrackName == "Track Name"
ArtistNames == "Artist Name(s)"
SearchPrefix == "ytsearch:"

ColumnNames == {TrackName, ArtistNames, "Album Name"}
FieldValues == {"John Lennon", "Imagine"}

SeqsUpTo(S, n) == UNION {[1..k -> S] : k \in 0..n}

Headers == SeqsUpTo(ColumnNames, MaxCols)
Rows == SeqsUpTo(FieldValues, MaxFields)
Files == {<<>>} \cup {<<h>> \o d : h \in Headers, d \in SeqsUpTo(Rows, MaxRows)}

\* ---------------------------------------------------------- Python values
PyStr(s) == [type |-> "str", value |-> s]
PyNone == [type |-> "NoneType", value |-> ""]

\* format(v, "") as an f-string replacement field applies it
Format(v) == IF v.type = "str" THEN v.value ELSE "None"

VARIABLES
    pathExists,  \* whether sys.argv[1] names an existing file
    file,        \* rows of the file at sys.argv[1]
    pc,          \* position of the script
    ydlOpen,     \* the YoutubeDL context manager is entered
    fileOpen,    \* the handle f is open
    fieldnames,  \* DictReader._fieldnames (meaningful once pos > 0)
    pos,         \* rows consumed from the underlying csv.reader
    row,         \* loop variable: the dict DictReader returned
    name,        \* local name
    artists,     \* local artists
    printed,     \* lines written to stdout by this script
    invoked,     \* calls of ydl.download made so far
    active,      \* calls of ydl.download that have not returned or raised
    error        \* uncaught exception that ended the script

vars == <<pathExists, file, pc, ydlOpen, fileOpen, fieldnames, pos, row,
          name, artists, printed, invoked, active, error>>

EmptyDict == [cols |-> [k \in {} |-> PyNone], rest |-> <<>>]

\* ------------------------------------------------------------ csv helpers
Range(s) == {s[i] : i \in 1..Len(s)}

LastIndex(names, k) == CHOOSE i \in 1..Len(names) :
                          /\ names[i] = k
                          /\ \A j \in (i+1)..Len(names) : names[j] # k

\* DictReader.__next__: d = dict(zip(fieldnames, row)); surplus fields go
\* under restkey, missing columns get restval (None).
MakeDict(names, r) ==
    [cols |-> [k \in Range(names) |->
                 IF LastIndex(names, k) <= Len(r)
                 THEN PyStr(r[LastIndex(names, k)])
                 ELSE PyNone],
     rest |-> IF Len(names) < Len(r) THEN SubSeq(r, Len(names) + 1, Len(r))
              ELSE <<>>]

\* variant: the header is taken only from a file that has further rows
HeaderPosOffByOne(f) == IF Len(f) >= 2 THEN 1 ELSE 0

\* DictReader.fieldnames: the first row of the reader becomes the header
HeaderPos(f) == IF Len(f) >= 1 THEN 1 ELSE 0

\* "while row == []: row = next(self.reader)": index of the next row that
\* is not blank, strictly after p; Len(f) + 1 when the reader is exhausted
RECURSIVE NextNonBlank(_, _)
NextNonBlank(f, p) ==
    IF p + 1 > Len(f) THEN Len(f) + 1
    ELSE IF f[p + 1] # <<>> THEN p + 1
    ELSE NextNonBlank(f, p + 1)

\* the argument of ydl.download and the free text after the search prefix
DownloadArg(a, n) == SearchPrefix \o Format(a) \o " " \o Format(n)
SearchQuery(url) == SubSeq(url, Len(SearchPrefix) + 1, Len(url))

ProgressLine(a, n) == "Downloading: " \o Format(a) \o " - " \o Format(n)

\* ------------------------------------------------------------------ Init
Init ==
    /\ pathExists \in BOOLEAN
    /\ file \in (IF pathExists THEN Files ELSE {<<>>})
    /\ pc = "ydl"
    /\ ydlOpen = FALSE
    /\ fileOpen = FALSE
    /\ fieldnames = <<>>
    /\ pos = 0
    /\ row = EmptyDict
    /\ name = PyNone
    /\ artists = PyNone
    /\ printed = <<>>
    /\ invoked = <<>>
    /\ active = 0
    /\ error = "none"

\* --------------------------------------------------------------- actions
\* variant: f opened without a with-block, so an exception leaves it open
RaiseLeavesOpen(e) ==
    /\ pc' = "error"
    /\ error' = e
    /\ fileOpen' = fileOpen
    /\ ydlOpen' = FALSE

\* An exception leaves both with-blocks: f.close() and ydl.__exit__ run,
\* then the interpreter reports the uncaught exception.
Raise(e) ==
    /\ pc' = "error"
    /\ error' = e
    /\ fileOpen' = FALSE
    /\ ydlOpen' = FALSE

\* line 19: with yt_dlp.YoutubeDL(ydl_opts) as ydl
EnterYdl ==
    /\ pc = "ydl"
    /\ ydlOpen' = TRUE
    /\ pc' = "open"
    /\ UNCHANGED <<pathExists, file, fileOpen, fieldnames, pos, row, name,
                   artists, printed, invoked, active, error>>

\* variant: a missing path is treated as an empty input
OpenFileMissingOk ==
    /\ pc = "open"
    /\ fileOpen' = TRUE
    /\ pc' = "loop"
    /\ UNCHANGED <<pathExists, file, ydlOpen, error, fieldnames, pos, row,
                   name, artists, printed, invoked, active>>

\* line 20-21: open(input_file, ...) and csv.DictReader(f)
OpenFile ==
    /\ pc = "open"
    /\ IF pathExists
       THEN /\ fileOpen' = TRUE
            /\ pc' = "loop"
            /\ UNCHANGED <<ydlOpen, error>>
       ELSE Raise("FileNotFoundError")
    /\ UNCHANGED <<pathExists, file, fieldnames, pos, row, name, artists,
                   printed, invoked, active>>

\* line 22: next(reader), DictReader.__next__
NextRow ==
    /\ pc = "loop"
    /\ LET hp == IF pos = 0 THEN HeaderPos(file) ELSE pos
           names == IF pos = 0 /\ hp = 1 THEN file[1] ELSE fieldnames
           np == NextNonBlank(file, hp)
       IN /\ fieldnames' = names
          /\ IF np > Len(file)
             THEN \* StopIteration: the loop and both with-blocks end
                  /\ pos' = Len(file)
                  /\ pc' = "done"
                  /\ fileOpen' = FALSE
                  /\ ydlOpen' = FALSE
                  /\ row' = row
             ELSE /\ pos' = np
                  /\ row' = MakeDict(names, file[np])
                  /\ pc' = "name"
                  /\ UNCHANGED <<fileOpen, ydlOpen>>
    /\ UNCHANGED <<pathExists, file, name, artists, printed, invoked,
                   active, error>>

\* variant: row.get('Track Name'), which yields None for a missing key
GetNameDefault ==
    /\ pc = "name"
    /\ name' = IF TrackName \in DOMAIN row.cols THEN row.cols[TrackName]
               ELSE PyNone
    /\ pc' = "artists"
    /\ UNCHANGED <<pathExists, file, ydlOpen, fileOpen, fieldnames, pos, row,
                   artists, printed, invoked, active, error>>

\* line 23: name = row['Track Name']
GetName ==
    /\ pc = "name"
    /\ IF TrackName \in DOMAIN row.cols
       THEN /\ name' = row.cols[TrackName]
            /\ pc' = "artists"
            /\ UNCHANGED <<fileOpen, ydlOpen, error>>
       ELSE /\ Raise("KeyError")
            /\ name' = name
    /\ UNCHANGED <<pathExists, file, fieldnames, pos, row, artists, printed,
                   invoked, active>>

\* line 24: artists = row['Artist Name(s)']
GetArtists ==
    /\ pc = "artists"
    /\ IF ArtistNames \in DOMAIN row.cols
       THEN /\ artists' = row.cols[ArtistNames]
            /\ pc' = "print"
            /\ UNCHANGED <<fileOpen, ydlOpen, error>>
       ELSE /\ Raise("KeyError")
            /\ artists' = artists
    /\ UNCHANGED <<pathExists, file, fieldnames, pos, row, name, printed,
                   invoked, active>>

\* variant: the progress print is missing
PrintProgressSkipped ==
    /\ pc = "print"
    /\ pc' = "download"
    /\ UNCHANGED <<pathExists, file, ydlOpen, fileOpen, fieldnames, pos, row,
                   name, artists, printed, invoked, active, error>>

\* line 25: print(f"Downloading: {artists} - {name}")
PrintProgress ==
    /\ pc = "print"
    /\ printed' = Append(printed, [line |-> pos,
                                   text |-> ProgressLine(artists, name)])
    /\ pc' = "download"
    /\ UNCHANGED <<pathExists, file, ydlOpen, fileOpen, fieldnames, pos, row,
                   name, artists, invoked, active, error>>

\* variant: the download is started without waiting for it to end
DownloadInvokeNoWait ==
    /\ pc = "download"
    /\ invoked' = Append(invoked, [line |-> pos,
                                   url |-> DownloadArg(artists, name)])
    /\ active' = active + 1
    /\ pc' = "loop"
    /\ UNCHANGED <<pathExists, file, ydlOpen, fileOpen, fieldnames, pos, row,
                   name, artists, printed, error>>

\* line 26: ydl.download([...]) is entered; the script blocks in it
DownloadInvoke ==
    /\ pc = "download"
    /\ invoked' = Append(invoked, [line |-> pos,
                                   url |-> DownloadArg(artists, name)])
    /\ active' = active + 1
    /\ pc' = "downloading"
    /\ UNCHANGED <<pathExists, file, ydlOpen, fileOpen, fieldnames, pos, row,
                   name, artists, printed, error>>

\* variant: the loop is left after the first download
DownloadReturnBreaks ==
    /\ pc = "downloading"
    /\ active' = active - 1
    /\ pc' = "done"
    /\ fileOpen' = FALSE
    /\ ydlOpen' = FALSE
    /\ UNCHANGED <<pathExists, file, fieldnames, pos, row, name, artists,
                   printed, invoked, error>>

\* line 26: the call returns; its return code is discarded
DownloadReturn ==
    /\ pc = "downloading"
    /\ active' = active - 1
    /\ pc' = "loop"
    /\ UNCHANGED <<pathExists, file, ydlOpen, fileOpen, fieldnames, pos, row,
                   name, artists, printed, invoked, error>>

\* variant: the exception is caught and the loop goes on to the next row
DownloadFailContinues ==
    /\ pc = "downloading"
    /\ active' = active - 1
    /\ error' = "DownloadError"
    /\ pc' = "loop"
    /\ UNCHANGED <<pathExists, file, ydlOpen, fileOpen, fieldnames, pos, row,
                   name, artists, printed, invoked>>

\* line 26: the call raises; nothing in the script catches it
DownloadFail ==
    /\ pc = "downloading"
    /\ active' = active - 1
    /\ Raise("DownloadError")
    /\ UNCHANGED <<pathExists, file, fieldnames, pos, row, name, artists,
                   printed, invoked>>

Next ==
    \/ EnterYdl
    \/ OpenFile
    \/ NextRow
    \/ GetName
    \/ GetArtists
    \/ PrintProgress
    \/ DownloadInvoke
    \/ DownloadReturn
    \/ DownloadFail

Spec == Init /\ [][Next]_vars

\* ------------------------------------------------------- derived notions
Terminal == pc \in {"done", "error"}

HasHeader == pathExists /\ Len(file) >= 1

\* rows DictReader yields: the rows after the header that are not blank
DataLines == IF Len(file) >= 1 THEN {i \in 2..Len(file) : file[i] # <<>>}
             ELSE {}

WellFormed == HasHeader /\ {TrackName, ArtistNames} \subseteq Range(file[1])

TypeOK ==
    /\ pc \in {"ydl", "open", "loop", "name", "artists", "print",
               "download", "downloading", "done", "error"}
    /\ error \in {"none", "FileNotFoundError", "KeyError", "DownloadError"}
    /\ pos \in 0..Len(file)
    /\ active \in 0..1

\* the dict DictReader built for the row of the i-th download
InvokedRow(i) == MakeDict(file[1], file[invoked[i].line]).cols

\* ------------------------------------------------------------------ C1
\* C1: when the program has terminated normally on a file whose header has
\* both required columns (so every download returned), the number of
\* download invocations equals the number of data rows of the file.
C1_CountEqualsRows ==
    (pc = "done" /\ WellFormed) => Len(invoked) = Cardinality(DataLines)

C1_Witness ==
    /\ pc = "done"
    /\ WellFormed
    /\ Len(invoked) >= 2
    /\ Len(invoked) = Cardinality(DataLines)

\* ------------------------------------------------------------------ C2
\* C2: for every download, both fields of its record are strings and the
\* search query is the artist field, one space, the track-name field (so
\* "John Lennon" and "Imagine" give "John Lennon Imagine").
C2_QueryIsArtistSpaceTrack ==
    \A i \in 1..Len(invoked) :
        /\ InvokedRow(i)[ArtistNames].type = "str"
        /\ InvokedRow(i)[TrackName].type = "str"
        /\ SearchQuery(invoked[i].url) =
              InvokedRow(i)[ArtistNames].value \o " "
                 \o InvokedRow(i)[TrackName].value

\* ------------------------------------------------------------------ C3
\* C3 as stated: a file whose header row lacks "Track Name" ends in an
\* error with no download made, whatever the number of data rows.
C3_MissingHeaderAlwaysErrors ==
    (HasHeader /\ TrackName \notin Range(file[1]) /\ Terminal)
        => (pc = "error" /\ Len(invoked) = 0)

\* C3 amended: a file whose header row lacks "Track Name" never reaches a
\* download; when it has at least one data row the program ends in a
\* KeyError raised on the first data row before anything is printed.
C3_MissingHeaderErrorsOnFirstRow ==
    (HasHeader /\ TrackName \notin Range(file[1]))
        => /\ Len(invoked) = 0
           /\ Len(printed) = 0
           /\ (Terminal /\ DataLines # {})
                 => (pc = "error" /\ error = "KeyError"
                        /\ \A j \in DataLines : pos <= j)

C3_Witness ==
    /\ HasHeader
    /\ TrackName \notin Range(file[1])
    /\ ArtistNames \in Range(file[1])
    /\ Cardinality(DataLines) = 2
    /\ pc = "error"
    /\ error = "KeyError"
    /\ Len(invoked) = 0

\* ------------------------------------------------------------------ C4
\* C4: on a file with a header row and no data rows the program never
\* enters an error state, never invokes a download, and terminates
\* normally.
C4_HeaderOnlyIsClean ==
    (HasHeader /\ DataLines = {})
        => /\ error = "none"
           /\ pc # "error"
           /\ Len(invoked) = 0
           /\ Terminal => pc = "done"

C4_Witness ==
    /\ pathExists
    /\ Len(file) = 1
    /\ pc = "done"
    /\ error = "none"
    /\ Len(invoked) = 0

\* ------------------------------------------------------------------ C5
\* C5: once a download has failed the program is in its error state with
\* no download in progress, the failed download is the last one invoked,
\* and no step invokes another download.
C5_FailureStopsEverything ==
    /\ [](error = "DownloadError"
             => /\ pc = "error"
                /\ active = 0
                /\ Len(invoked) >= 1
                /\ invoked[Len(invoked)].line = pos)
    /\ [][error = "DownloadError" => invoked' = invoked]_vars

C5_Witness ==
    /\ error = "DownloadError"
    /\ pc = "error"
    /\ Len(invoked) = 1
    /\ Cardinality(DataLines) = 2

\* ------------------------------------------------------------------ C6
\* C6: every record that reaches the download step has a value for both
\* required columns; a row lacking one never gets a download.
C6_InvokedRowsHaveBothFields ==
    \A i \in 1..Len(invoked) :
        /\ InvokedRow(i)[TrackName] # PyNone
        /\ InvokedRow(i)[ArtistNames] # PyNone

\* ------------------------------------------------------------------ C7
\* C7: when the input path does not exist the file is never opened, no
\* download is invoked, nothing is printed, and the program ends in
\* FileNotFoundError.
C7_MissingPath ==
    ~pathExists
        => /\ ~fileOpen
           /\ Len(invoked) = 0
           /\ Len(printed) = 0
           /\ Terminal => (pc = "error" /\ error = "FileNotFoundError")

C7_Witness ==
    /\ ~pathExists
    /\ pc = "error"
    /\ error = "FileNotFoundError"

\* ------------------------------------------------------------------ C8
\* C8: at most one download is in progress, one is in progress exactly
\* while the script is blocked in the call, and the i-th download made is
\* for the i-th data row of the file.
C8_SequentialInFileOrder ==
    /\ active <= 1
    /\ (active = 1) <=> (pc = "downloading")
    /\ \A i \in 1..Len(invoked) :
          /\ invoked[i].line \in DataLines
          /\ Cardinality({j \in DataLines : j <= invoked[i].line}) = i

C8_Witness ==
    /\ Len(invoked) = 2
    /\ active = 1
    /\ invoked[1].line < invoked[2].line

\* ------------------------------------------------------------------ C9
\* C9: the file handle is open only between a successful open and the end
\* of the read loop; it is closed in every terminal state and is never
\* open when the path does not exist.
C9_HandleScoped ==
    /\ fileOpen => /\ pathExists
                   /\ pc \in {"loop", "name", "artists", "print",
                              "download", "downloading"}
    /\ Terminal => ~fileOpen
    /\ (pathExists /\ pc \in {"loop", "name", "artists", "print",
                              "download", "downloading"}) => fileOpen

C9_Witness ==
    /\ pathExists
    /\ pc = "error"
    /\ error \in {"KeyError", "DownloadError"}
    /\ ~fileOpen
    /\ pos >= 2

\* ----------------------------------------------------------------- C10
\* C10: a row's progress line is printed after both of its fields are read
\* and before its download is invoked: the lines printed exceed the
\* downloads started by 0 or 1, by 1 exactly between the print and the
\* call, the i-th line and the i-th download are for the same row, and in
\* every terminal state the two counts are equal.
C10_PrintBeforeDownload ==
    /\ Len(printed) - Len(invoked) \in {0, 1}
    /\ (Len(printed) - Len(invoked) = 1) <=> (pc = "download")
    /\ \A i \in 1..Len(invoked) : printed[i].line = invoked[i].line
    /\ Terminal => Len(printed) = Len(invoked)

C10_Witness ==
    /\ pc = "download"
    /\ Len(printed) = 2
    /\ Len(invoked) = 1
====
